---- MODULE Spec2Model ----
(***************************************************************************)
(* A model of the TCP reverse proxy of src/reverse_proxy.py: the stream    *)
(* classifier, the endpoint resolver and the Host header parser as         *)
(* operators over byte sequences, and the connection handler, the two      *)
(* relay loops and the accept loop as state machines.                      *)
(*                                                                         *)
(* A byte is a one-character string; a bytes object (and a decoded str)    *)
(* is a sequence of them.                                                  *)
(***************************************************************************)
EXTENDS Naturals, Integers, Sequences, FiniteSets, TLC

(***************************************************************************)
(* Bytes and the Python string operations the code uses.                   *)
(***************************************************************************)
CR == "\r"
LF == "\n"
CRLF == <<CR, LF>>
BLANK_LINE == CRLF \o CRLF
QUOTE == "\""
DigitChars == <<"0", "1", "2", "3", "4", "5", "6", "7", "8", "9">>
Whitespace == {" ", "\t", CR, LF}

Min(a, b) == IF a <= b THEN a ELSE b

\* b[i..] (1-based), empty when i is past the end
Drop(b, i) == SubSeq(b, i, Len(b))

\* bytes.startswith
StartsWith(b, p) == Len(p) <= Len(b) /\ SubSeq(b, 1, Len(p)) = p

\* bytes.find from position i (1-based): the lowest index of sep, 0 when absent
Find(b, sep, i) ==
  LET hits == {k \in i..(Len(b) - Len(sep) + 1) : SubSeq(b, k, k + Len(sep) - 1) = sep}
  IN  IF hits = {} THEN 0 ELSE CHOOSE k \in hits : \A j \in hits : k <= j

\* sep in b
Contains(b, sep) == Find(b, sep, 1) # 0

\* b.split(sep, 1): one part when sep is absent, else the two parts around its
\* first occurrence
SplitOnce(b, sep) ==
  LET k == Find(b, sep, 1)
  IN  IF k = 0 THEN <<b>>
      ELSE <<SubSeq(b, 1, k - 1), Drop(b, k + Len(sep))>>

\* b.split(sep): every part, in order
RECURSIVE SplitAll(_, _)
SplitAll(b, sep) ==
  LET k == Find(b, sep, 1)
  IN  IF k = 0 THEN <<b>>
      ELSE <<SubSeq(b, 1, k - 1)>> \o SplitAll(Drop(b, k + Len(sep)), sep)

\* str.strip(): leading and trailing whitespace removed
RECURSIVE LStrip(_)
LStrip(s) == IF s # <<>> /\ Head(s) \in Whitespace THEN LStrip(Tail(s)) ELSE s
RECURSIVE RStrip(_)
RStrip(s) ==
  IF s # <<>> /\ s[Len(s)] \in Whitespace THEN RStrip(SubSeq(s, 1, Len(s) - 1)) ELSE s
Strip(s) == LStrip(RStrip(s))

IsDigit(ch) == \E d \in 1..10 : DigitChars[d] = ch
DigitValue(ch) == (CHOOSE d \in 1..10 : DigitChars[d] = ch) - 1

RECURSIVE DigitsValue(_)
DigitsValue(s) ==
  IF s = <<>> THEN 0
  ELSE 10 * DigitsValue(SubSeq(s, 1, Len(s) - 1)) + DigitValue(s[Len(s)])

\* int(s): surrounding whitespace and one sign allowed, then decimal digits;
\* anything else raises ValueError (ok = FALSE)
PyInt(s) ==
  LET t == Strip(s)
      neg == t # <<>> /\ Head(t) = "-"
      u == IF t # <<>> /\ Head(t) \in {"-", "+"} THEN Tail(t) ELSE t
  IN  IF u # <<>> /\ \A k \in 1..Len(u) : IsDigit(u[k])
      THEN [ok |-> TRUE, n |-> IF neg THEN 0 - DigitsValue(u) ELSE DigitsValue(u)]
      ELSE [ok |-> FALSE, n |-> 0]

\* str(n) for n >= 0
RECURSIVE IntStr(_)
IntStr(n) ==
  IF n < 10 THEN <<DigitChars[n + 1]>>
  ELSE IntStr(n \div 10) \o <<DigitChars[(n % 10) + 1]>>

(***************************************************************************)
(* json.loads on the grammar the inputs exercise: objects, arrays,         *)
(* strings, integers, null, true, false, with JSON whitespace.  The inputs *)
(* hold no backslash and no number with a fraction or an exponent, so      *)
(* string escapes and floats do not arise.  A parsed value is a record: t its type, s a   *)
(* string's characters, n a number, o a dict (a function from keys) or a   *)
(* list.                                                                   *)
(***************************************************************************)
\* a byte that is not valid UTF-8 wherever it stands
BYTE_FF == "0xFF"

JStr(s) == [t |-> "str", s |-> s, n |-> 0, o |-> <<>>]
JNum(n) == [t |-> "num", s |-> <<>>, n |-> n, o |-> <<>>]
JNull == [t |-> "null", s |-> <<>>, n |-> 0, o |-> <<>>]
JTrue == [t |-> "true", s |-> <<>>, n |-> 0, o |-> <<>>]
JFalse == [t |-> "false", s |-> <<>>, n |-> 0, o |-> <<>>]
JObj(o) == [t |-> "obj", s |-> <<>>, n |-> 0, o |-> o]
JArr(o) == [t |-> "arr", s |-> <<>>, n |-> 0, o |-> o]

\* d[k] = v on a dict: a repeated key keeps the last value
DictPut(d, k, v) == [x \in (DOMAIN d) \cup {k} |-> IF x = k THEN v ELSE d[x]]

JsonFail == [ok |-> FALSE, v |-> JNull, i |-> 0]
JsonOk(v, i) == [ok |-> TRUE, v |-> v, i |-> i]

\* the byte at i, "" past the end
At(b, i) == IF i \in 1..Len(b) THEN b[i] ELSE ""

RECURSIVE SkipWs(_, _)
SkipWs(b, i) == IF At(b, i) \in Whitespace THEN SkipWs(b, i + 1) ELSE i

\* a string starting at the quote at i: up to the next quote, no control
\* characters inside (json's strict mode)
ParseString(b, i) ==
  LET j == Find(b, <<QUOTE>>, i + 1)
  IN  IF j = 0 THEN JsonFail
      ELSE LET s == SubSeq(b, i + 1, j - 1)
           IN  IF \E k \in 1..Len(s) : s[k] \in {CR, LF, "\t", BYTE_FF}
               THEN JsonFail
               ELSE JsonOk(JStr(s), j + 1)

RECURSIVE DigitsEnd(_, _)
DigitsEnd(b, i) == IF IsDigit(At(b, i)) THEN DigitsEnd(b, i + 1) ELSE i

\* an integer at i: an optional '-', then 0 or a digit string with no leading 0
ParseNumber(b, i) ==
  LET neg == At(b, i) = "-"
      d == IF neg THEN i + 1 ELSE i
      e == IF At(b, d) = "0" THEN d + 1 ELSE DigitsEnd(b, d)
  IN  IF e = d THEN JsonFail
      ELSE LET n == DigitsValue(SubSeq(b, d, e - 1))
           IN  JsonOk(JNum(IF neg THEN 0 - n ELSE n), e)

W_null == <<"n", "u", "l", "l">>
W_true == <<"t", "r", "u", "e">>
W_false == <<"f", "a", "l", "s", "e">>

RECURSIVE ParseValue(_, _)
RECURSIVE ParseMembers(_, _, _)
RECURSIVE ParseElements(_, _, _)

\* the value starting at i (whitespace already skipped)
ParseValue(b, i) ==
  LET ch == At(b, i)
  IN  CASE ch = QUOTE -> ParseString(b, i)
        [] ch = "{" ->
             LET j == SkipWs(b, i + 1)
             IN  IF At(b, j) = "}" THEN JsonOk(JObj(<<>>), j + 1)
                 ELSE ParseMembers(b, j, <<>>)
        [] ch = "[" ->
             LET j == SkipWs(b, i + 1)
             IN  IF At(b, j) = "]" THEN JsonOk(JArr(<<>>), j + 1)
                 ELSE ParseElements(b, j, <<>>)
        [] ch = "-" \/ IsDigit(ch) -> ParseNumber(b, i)
        [] StartsWith(Drop(b, i), W_null) -> JsonOk(JNull, i + 4)
        [] StartsWith(Drop(b, i), W_true) -> JsonOk(JTrue, i + 4)
        [] StartsWith(Drop(b, i), W_false) -> JsonOk(JFalse, i + 5)
        [] OTHER -> JsonFail

\* "key": value pairs from i up to the closing brace; acc is the dict so far
ParseMembers(b, i, acc) ==
  IF At(b, i) # QUOTE THEN JsonFail
  ELSE LET key == ParseString(b, i)
       IN  IF ~key.ok THEN JsonFail
           ELSE LET c == SkipWs(b, key.i)
                IN  IF At(b, c) # ":" THEN JsonFail
                    ELSE LET val == ParseValue(b, SkipWs(b, c + 1))
                         IN  IF ~val.ok THEN JsonFail
                             ELSE LET m == SkipWs(b, val.i)
                                      d == DictPut(acc, key.v.s, val.v)
                                  IN  CASE At(b, m) = "," ->
                                             ParseMembers(b, SkipWs(b, m + 1), d)
                                        [] At(b, m) = "}" -> JsonOk(JObj(d), m + 1)
                                        [] OTHER -> JsonFail

\* values from i up to the closing bracket; acc is the list so far
ParseElements(b, i, acc) ==
  LET val == ParseValue(b, i)
  IN  IF ~val.ok THEN JsonFail
      ELSE LET m == SkipWs(b, val.i)
               l == Append(acc, val.v)
           IN  CASE At(b, m) = "," -> ParseElements(b, SkipWs(b, m + 1), l)
                 [] At(b, m) = "]" -> JsonOk(JArr(l), m + 1)
                 [] OTHER -> JsonFail

\* json.loads(b): bytes that are not UTF-8 raise, and so does anything but
\* one value with whitespace around it
json_loads(b) ==
  IF \E k \in 1..Len(b) : b[k] = BYTE_FF THEN JsonFail
  ELSE LET r == ParseValue(b, SkipWs(b, 1))
       IN  IF r.ok /\ SkipWs(b, r.i) = Len(b) + 1 THEN r ELSE JsonFail

\* json.dumps of a string, an integer, null, or an object given as its
\* <<key, value>> pairs in order
RECURSIVE JsonDumps(_)
RECURSIVE DumpPairs(_)
JsonDumps(v) ==
  CASE v.t = "str" -> <<QUOTE>> \o v.s \o <<QUOTE>>
    [] v.t = "num" -> IF v.n < 0 THEN <<"-">> \o IntStr(0 - v.n) ELSE IntStr(v.n)
    [] v.t = "null" -> W_null
    [] v.t = "true" -> W_true
    [] v.t = "false" -> W_false
    [] v.t = "arr" -> <<"[", "]">>
    [] v.t = "obj" -> <<"{">> \o DumpPairs(v.o) \o <<"}">>
DumpPairs(ps) ==
  IF ps = <<>> THEN <<>>
  ELSE <<QUOTE>> \o ps[1][1] \o <<QUOTE, ":", " ">> \o JsonDumps(ps[1][2])
       \o (IF Len(ps) > 1 THEN <<",", " ">> \o DumpPairs(Tail(ps)) ELSE <<>>)

(***************************************************************************)
(* Byte strings of the source, of its tests and of the inputs.             *)
(***************************************************************************)
\* the literal is_stream looks for
MARKER ==
  <<"T", "r", "a", "n", "s", "f", "e", "r", "-", "E", "n", "c", "o", "d",
    "i", "n", "g", ":", " ", "c", "h", "u", "n", "k", "e", "d">>
\* the prefix of the header line the resolver looks for
HOST_PREFIX ==
  <<"H", "o", "s", "t", ":", " ">>
B_field1 ==
  <<"f", "i", "e", "l", "d", "1">>
B_field2 ==
  <<"f", "i", "e", "l", "d", "2">>
B_value1 ==
  <<"v", "a", "l", "u", "e", "1">>
B_value2 ==
  <<"v", "a", "l", "u", "e", "2">>
B_api1_host ==
  <<"a", "p", "i", "1", ".", "e", "x", "a", "m", "p", "l", "e", ".", "c",
    "o", "m">>
B_api2_host ==
  <<"a", "p", "i", "2", ".", "e", "x", "a", "m", "p", "l", "e", ".", "c",
    "o", "m">>
B_default_host ==
  <<"d", "e", "f", "a", "u", "l", "t", "_", "a", "p", "i", ".", "e", "x",
    "a", "m", "p", "l", "e", ".", "c", "o", "m">>
B_example_com ==
  <<"e", "x", "a", "m", "p", "l", "e", ".", "c", "o", "m">>
B_b_org ==
  <<"b", ".", "o", "r", "g">>
B_request_line ==
  <<"P", "O", "S", "T", " ", "/", "a", "p", "i", "/", "e", "n", "d", "p",
    "o", "i", "n", "t", " ", "H", "T", "T", "P", "/", "1", ".", "1">>
B_content_type ==
  <<"C", "o", "n", "t", "e", "n", "t", "-", "T", "y", "p", "e", ":", " ",
    "a", "p", "p", "l", "i", "c", "a", "t", "i", "o", "n", "/", "j", "s",
    "o", "n">>
B_host_bad_port ==
  <<"H", "o", "s", "t", ":", " ", "e", "x", "a", "m", "p", "l", "e", ".",
    "c", "o", "m", ":", "h", "t", "t", "p">>
B_host_empty ==
  <<"H", "o", "s", "t", ":", " ">>
B_host_only_port ==
  <<"H", "o", "s", "t", ":", " ", ":", "8", "0", "8", "0">>
B_host_undecodable ==
  <<"H", "o", "s", "t", ":", " ", BYTE_FF>>
B_host_lowercase ==
  <<"h", "o", "s", "t", ":", " ", "e", "x", "a", "m", "p", "l", "e", ".",
    "c", "o", "m">>
B_x_host ==
  <<"X", "-", "H", "o", "s", "t", ":", " ", "e", "x", "a", "m", "p", "l",
    "e", ".", "c", "o", "m">>
B_marker_lowercase ==
  <<"t", "r", "a", "n", "s", "f", "e", "r", "-", "e", "n", "c", "o", "d",
    "i", "n", "g", ":", " ", "c", "h", "u", "n", "k", "e", "d">>
B_marker_cut ==
  <<"T", "r", "a", "n", "s", "f", "e", "r", "-", "E", "n", "c", "o", "d",
    "i", "n", "g", ":", " ", "c", "h", "u", "n", "k", "e">>
B_other ==
  <<"o", "t", "h", "e", "r">>
B_body_array ==
  <<"[", "]">>
B_body_string ==
  <<QUOTE, "v", "a", "l", "u", "e", "1", QUOTE>>
B_body_cut ==
  <<"{", QUOTE, "f", "i", "e", "l", "d", "1", QUOTE, ":", " ", QUOTE, "v",
    "a", "l", "u", "e", "1", QUOTE>>
B_body_null ==
  <<"n", "u", "l", "l">>

VARIABLES
  API_ENDPOINTS,  \* the endpoint table: the rules of config.yaml in order
  rReq,           \* resolver harness: the request the input is rendered from
  rData,          \* resolver harness: the input bytes
  rPc,            \* resolver harness: "off", "input", "classified", "resolved"
  rStream,        \* resolver harness: what is_stream returned
  rFlag,          \* resolver harness: the is_streaming argument passed
  rResult,        \* resolver harness: what determine_target_endpoint returned
  backlog,        \* connections the listening socket holds, not yet accepted
  arrived,        \* how many clients have connected so far
  workQueue,      \* the executor's queue: submitted calls no worker has taken
  env,            \* what the peers may do: how many clients connect, the first
                  \* chunks they send, how many bytes follow from each side,
                  \* the errors the socket operations may raise, the clients
                  \* that connect and then stay silent
  conn            \* per connection: the handler's position, locals and sockets

(***************************************************************************)
(* The pure functions of src/reverse_proxy.py.  A (host, port) result is   *)
(* a record; some = FALSE is (None, None).                                 *)
(***************************************************************************)
Target(h, p) == [some |-> TRUE, host |-> h, port |-> p]
NoTarget == [some |-> FALSE, host |-> <<>>, port |-> 0]

\* "not target_host": None and the empty string are both falsy
Falsy(t) == ~t.some \/ t.host = <<>>

\* is_stream with the literal cut one byte short
is_stream_short_marker(data) == Contains(data, SubSeq(MARKER, 1, Len(MARKER) - 1))

\* is_stream(data)
is_stream(data) == Contains(data, MARKER)

\* bytes.decode(): UTF-8; the ASCII bytes decode to themselves, BYTE_FF raises
Decode(b) == [ok |-> \A k \in 1..Len(b) : b[k] # BYTE_FF, s |-> b]

\* parse_host_header with the default port of the proxy instead of 80
parse_host_header_default_8080(host_header) ==
  LET parts == SplitAll(host_header, <<":">>)
  IN  IF ~Decode(host_header).ok \/ Len(parts) < 2 THEN NoTarget
      ELSE LET port == IF Len(parts) > 2 THEN PyInt(parts[3])
                       ELSE [ok |-> TRUE, n |-> 8080]
           IN  IF ~port.ok THEN NoTarget ELSE Target(Strip(parts[2]), port.n)

\* parse_host_header(host_header); every exception is caught and gives
\* (None, None)
parse_host_header(host_header) ==
  LET dec == Decode(host_header)
      parts == SplitAll(dec.s, <<":">>)
  IN  IF ~dec.ok THEN NoTarget
      ELSE IF Len(parts) < 2 THEN NoTarget
      ELSE LET original_host == Strip(parts[2])
               port == IF Len(parts) > 2 THEN PyInt(parts[3])
                       ELSE [ok |-> TRUE, n |-> 80]
           IN  IF ~port.ok THEN NoTarget
               ELSE Target(original_host, port.n)

\* dict.get(key): None when absent
DictGet(d, k) == IF k \in DOMAIN d THEN d[k] ELSE JNull

\* value == s for a str s: only an equal str is equal
PyEqStr(v, s) == v.t = "str" /\ v.s = s

\* the loop of find_target_endpoint over the rules left; payload.get raises
\* AttributeError unless payload is a dict
RECURSIVE ScanEndpoints(_, _)
ScanEndpoints(rules, payload) ==
  IF rules = <<>> THEN [raised |-> FALSE, t |-> NoTarget]
  ELSE IF payload.t # "obj" THEN [raised |-> TRUE, t |-> NoTarget]
  ELSE LET config == Head(rules)
       IN  IF PyEqStr(DictGet(payload.o, config.match_field), config.match_value)
           THEN [raised |-> FALSE, t |-> Target(config.target_host, config.target_port)]
           ELSE ScanEndpoints(Tail(rules), payload)

\* find_target_endpoint keeping the last matching rule instead of the first
RECURSIVE ScanEndpointsLast(_, _)
ScanEndpointsLast(rules, payload) ==
  IF rules = <<>> THEN [raised |-> FALSE, t |-> NoTarget]
  ELSE IF payload.t # "obj" THEN [raised |-> TRUE, t |-> NoTarget]
  ELSE LET config == rules[Len(rules)]
       IN  IF PyEqStr(DictGet(payload.o, config.match_field), config.match_value)
           THEN [raised |-> FALSE, t |-> Target(config.target_host, config.target_port)]
           ELSE ScanEndpointsLast(SubSeq(rules, 1, Len(rules) - 1), payload)
find_target_endpoint_last_match(payload) == ScanEndpointsLast(API_ENDPOINTS, payload)

\* find_target_endpoint(payload)
find_target_endpoint(payload) == ScanEndpoints(API_ENDPOINTS, payload)

\* the first header line that starts with "Host: ", b"" when there is none
RECURSIVE FirstHostHeader(_)
FirstHostHeader(lines) ==
  IF lines = <<>> THEN <<>>
  ELSE IF StartsWith(Head(lines), HOST_PREFIX) THEN Head(lines)
  ELSE FirstHostHeader(Tail(lines))

\* determine_target_endpoint routing a streaming input like a regular one
determine_target_endpoint_any(data, is_streaming) ==
  LET parts == SplitOnce(data, BLANK_LINE)
  IN  IF Len(parts) # 2 THEN NoTarget
      ELSE LET payload == json_loads(parts[2])
           IN  IF ~payload.ok THEN NoTarget
               ELSE LET found == find_target_endpoint(payload.v)
                    IN  IF found.raised THEN NoTarget
                        ELSE IF Falsy(found.t)
                        THEN parse_host_header(FirstHostHeader(SplitAll(parts[1], CRLF)))
                        ELSE found.t

\* determine_target_endpoint(data, is_streaming); every exception is caught
\* and falls through to (None, None)
determine_target_endpoint(data, is_streaming) ==
  IF ~is_streaming
  THEN LET parts == SplitOnce(data, BLANK_LINE)
       IN  IF Len(parts) # 2 THEN NoTarget
           ELSE LET headers == parts[1]
                    payload == json_loads(parts[2])
                IN  IF ~payload.ok THEN NoTarget
                    ELSE LET host_header == FirstHostHeader(SplitAll(headers, CRLF))
                             original == parse_host_header(host_header)
                             found == find_target_endpoint(payload.v)
                         IN  IF found.raised THEN NoTarget
                             ELSE IF Falsy(found.t) THEN original
                             ELSE found.t
  ELSE NoTarget

(***************************************************************************)
(* The inputs of the resolver harness: a request is a request line, some   *)
(* header lines, the blank line or not, and a body, rendered to bytes the  *)
(* way the tests write them.                                               *)
(***************************************************************************)
MaxHeaders == 2

\* "Host: <host>" or "Host: <host>:<port>"
HostHdr(h, hasPort, p) ==
  [cls |-> "host", host |-> h, hasPort |-> hasPort, port |-> p, bytes |-> <<>>]
\* any other line: cls says what it is
RawHdr(cls, b) ==
  [cls |-> cls, host |-> <<>>, hasPort |-> FALSE, port |-> 0, bytes |-> b]

HeaderSpecs ==
  { HostHdr(B_example_com, FALSE, 0),
    HostHdr(B_example_com, TRUE, 9090),
    HostHdr(B_b_org, TRUE, 443),
    RawHdr("unparsable", B_host_bad_port),
    RawHdr("unparsable", B_host_undecodable),
    RawHdr("emptyhost", B_host_empty),
    RawHdr("emptyhost", B_host_only_port),
    RawHdr("other", B_host_lowercase),
    RawHdr("other", B_x_host),
    RawHdr("other", B_content_type),
    RawHdr("marker", MARKER),
    RawHdr("other", B_marker_lowercase),
    RawHdr("other", B_marker_cut) }

DocBody(pairs) == [k |-> "doc", pairs |-> pairs, bytes |-> <<>>]
RawBody(b) == [k |-> "raw", pairs |-> <<>>, bytes |-> b]

BodySpecs ==
  { DocBody(<< <<B_field1, JStr(B_value1)>> >>),
    DocBody(<< <<B_field1, JStr(B_value2)>> >>),
    DocBody(<< <<B_field2, JStr(B_value2)>> >>),
    DocBody(<< <<B_field1, JStr(B_value1)>>, <<B_field2, JStr(B_value2)>> >>),
    DocBody(<< <<B_field2, JStr(B_value2)>>, <<B_field1, JStr(B_value1)>> >>),
    DocBody(<< <<B_other, JStr(B_value1)>>, <<B_field2, JStr(B_value2)>> >>),
    DocBody(<< <<B_field1, JNull>> >>),
    DocBody(<< <<B_field1, JNum(1)>>, <<B_other, JStr(MARKER)>> >>),
    DocBody(<<>>),
    RawBody(<<>>),
    RawBody(B_body_array),
    RawBody(B_body_string),
    RawBody(B_body_null),
    RawBody(B_body_cut),
    RawBody(MARKER) }

RenderHeader(h) ==
  IF h.cls = "host"
  THEN HOST_PREFIX \o h.host \o (IF h.hasPort THEN <<":">> \o IntStr(h.port) ELSE <<>>)
  ELSE h.bytes

RenderBody(b) == IF b.k = "doc" THEN JsonDumps(JObj(b.pairs)) ELSE b.bytes

RECURSIVE RenderHeaders(_)
RenderHeaders(hs) ==
  IF hs = <<>> THEN <<>> ELSE RenderHeader(Head(hs)) \o CRLF \o RenderHeaders(Tail(hs))

\* request line CRLF, each header CRLF, the blank line's second CRLF, body
Render(req) ==
  B_request_line \o CRLF \o RenderHeaders(req.headers)
    \o (IF req.delim THEN CRLF ELSE <<>>) \o RenderBody(req.body)

Request(hs, delim, body) == [headers |-> hs, delim |-> delim, body |-> body]

Requests ==
  { Request(hs, d, b) :
      hs \in UNION {[1..n -> HeaderSpecs] : n \in 0..MaxHeaders},
      d \in BOOLEAN, b \in BodySpecs }

\* the rules the tests expect config.yaml to hold
Rule(f, v, h, p) ==
  [match_field |-> f, match_value |-> v, target_host |-> h, target_port |-> p]
RULE_API1 == Rule(B_field1, B_value1, B_api1_host, 80)
RULE_API2 == Rule(B_field2, B_value2, B_api2_host, 8080)
TABLE_TESTS == <<RULE_API1, RULE_API2>>
\* the tables a configuration may hold: the tests' rules in both orders, and
\* no rule at all
Tables == {TABLE_TESTS, <<RULE_API2, RULE_API1>>, <<>>}

vars ==
  <<API_ENDPOINTS, rReq, rData, rPc, rStream, rFlag, rResult,
    backlog, arrived, workQueue, env, conn>>
resolverVars == <<rReq, rData, rPc, rStream, rFlag, rResult>>
proxyVars == <<backlog, arrived, workQueue, env, conn>>

(***************************************************************************)
(* The resolver harness: is_stream and determine_target_endpoint applied   *)
(* to every input.                                                         *)
(***************************************************************************)
InitResolve ==
  /\ API_ENDPOINTS \in Tables
  /\ rReq \in Requests
  /\ rData = Render(rReq)
  /\ rPc = "input"
  /\ rStream = FALSE
  /\ rFlag = FALSE
  /\ rResult = NoTarget
  /\ backlog = <<>>
  /\ arrived = 0
  /\ workQueue = <<>>
  /\ env = [nconns |-> 0, requests |-> {}, clientBytes |-> 0, backendBytes |-> 0,
            errors |-> {}, silent |-> {}]
  /\ conn = <<>>

R_Classify ==
  /\ rPc = "input"
  /\ rStream' = is_stream(rData)
  /\ rPc' = "classified"
  /\ UNCHANGED <<API_ENDPOINTS, rReq, rData, rFlag, rResult>>
  /\ UNCHANGED proxyVars

R_Resolve ==
  /\ rPc = "classified"
  /\ \E flag \in BOOLEAN :
       /\ rFlag' = flag
       /\ rResult' = determine_target_endpoint(rData, flag)
  /\ rPc' = "resolved"
  /\ UNCHANGED <<API_ENDPOINTS, rReq, rData, rStream>>
  /\ UNCHANGED proxyVars

NextResolve == R_Classify \/ R_Resolve

SpecResolve == InitResolve /\ [][NextResolve]_vars

(***************************************************************************)
(* What the request an input was rendered from says about it.              *)
(***************************************************************************)
\* the marker was put in a header line or in the body
ReqHasMarker(req) ==
  \/ \E i \in DOMAIN req.headers : req.headers[i].cls = "marker"
  \/ req.body = RawBody(MARKER)
  \/ /\ req.body.k = "doc"
     /\ \E i \in DOMAIN req.body.pairs : req.body.pairs[i][2] = JStr(MARKER)

\* the header lines that start with "Host: "
HostLines(req) ==
  {i \in DOMAIN req.headers : req.headers[i].cls \in {"host", "unparsable", "emptyhost"}}

\* the body is a document and the blank line stands before it
HasDocument(req) == req.delim /\ req.body.k = "doc"

\* the document has the rule's field, with the rule's value
DocMatches(rule, pairs) ==
  \E i \in DOMAIN pairs :
     pairs[i][1] = rule.match_field /\ pairs[i][2] = JStr(rule.match_value)

DocHasField(rule, pairs) == \E i \in DOMAIN pairs : pairs[i][1] = rule.match_field

MatchingRules(req) ==
  {i \in DOMAIN API_ENDPOINTS : DocMatches(API_ENDPOINTS[i], req.body.pairs)}

Lowest(S) == CHOOSE i \in S : \A j \in S : i <= j

RuleTarget(rule) == Target(rule.target_host, rule.target_port)

(***************************************************************************)
(* Claims about the pure functions, under SpecResolve.                     *)
(***************************************************************************)
\* C6: is_stream returns true exactly when the input contains the literal
\* 'Transfer-Encoding: chunked' (in a header line or in the body), false
\* otherwise (a cut or lower-case marker is not one), for every input.
C6_IsStreamIffMarker ==
  rPc \in {"classified", "resolved"} => (rStream <=> ReqHasMarker(rReq))

\* C6 witness: the marker stands in the body only, and is_stream said true
C6_Witness ==
  /\ rPc = "classified"
  /\ rStream
  /\ \A i \in DOMAIN rReq.headers : rReq.headers[i].cls # "marker"
  /\ rReq.body.k = "doc"

\* C7: on the regular path, with the blank line and a body that parses to a
\* document, if some rule matches then the first matching rule in table order
\* gives the result, whatever the header lines are; and a rule whose field
\* the document lacks never gives the result.
C7_FirstMatchWins ==
  (rPc = "resolved" /\ ~rFlag /\ HasDocument(rReq)) =>
     /\ MatchingRules(rReq) # {} =>
          rResult = RuleTarget(API_ENDPOINTS[Lowest(MatchingRules(rReq))])
     /\ \A i \in DOMAIN API_ENDPOINTS :
          ~DocHasField(API_ENDPOINTS[i], rReq.body.pairs) =>
             rResult # RuleTarget(API_ENDPOINTS[i])

\* C7 witness: both rules match, a Host line is present, and the rule that
\* stands first in this table (api2) won
C7_Witness ==
  /\ rPc = "resolved" /\ ~rFlag /\ HasDocument(rReq)
  /\ Cardinality(MatchingRules(rReq)) = 2
  /\ HostLines(rReq) # {}
  /\ API_ENDPOINTS[1] = RULE_API2
  /\ rResult = Target(B_api2_host, 8080)

C9_DefaultTarget ==
  (rPc = "resolved" /\ ~rFlag /\ HasDocument(rReq) /\ MatchingRules(rReq) = {}
     /\ HostLines(rReq) = {}) =>
     rResult = Target(B_default_host, 80)

\* C11, as claimed: on the regular path an input without the blank line, or
\* with a body that is no key/value document (empty, not JSON, or JSON that
\* is no object), resolves to none, whatever its Host line says.
C11_MalformedGivesNone ==
  (rPc = "resolved" /\ ~rFlag /\ (~rReq.delim \/ rReq.body.k = "raw")) =>
     rResult = NoTarget

\* C12, as claimed: parse_host_header gives (host, port) for a Host line with
\* a host and no port or an integer port, and none for every other Host
\* line: one with no host ('Host: ', 'Host: :8080'), one whose port is no
\* integer, one that does not decode.
C12_MalformedHostIsNone ==
  rPc = "resolved" =>
     \A i \in HostLines(rReq) :
        LET h == rReq.headers[i]
        IN  parse_host_header(RenderHeader(h)) =
              IF h.cls = "host"
              THEN Target(h.host, IF h.hasPort THEN h.port ELSE 80)
              ELSE NoTarget

(***************************************************************************)
(* The proxy: main's accept loop, the executor, and handle_client with     *)
(* handle_regular_http, one step per socket operation.                     *)
(***************************************************************************)
BUFFER_SIZE == 4096
MAX_WORKERS == 10
LISTEN_BACKLOG == 10

MaxConns == 2
PoolBytes == 1
MaxClientBytes == 2
MaxBackendBytes == 2
MaxStreamBytes == 3
MaxPartial == 0

Conns == DOMAIN conn

\* the bytes a client sends after its first chunk, and the bytes a backend
\* answers with: every byte distinct, so that order and loss show
CLIENT_BYTES == <<"c1", "c2", "c3", "c4", "c5", "c6">>
BACKEND_BYTES == <<"b1", "b2", "b3", "b4", "b5", "b6">>

\* the first chunks a client sends
InitialRequests ==
  { Request(<<>>, TRUE, DocBody(<< <<B_field1, JStr(B_value1)>> >>)),
    Request(<<HostHdr(B_example_com, TRUE, 9090)>>, TRUE,
            DocBody(<< <<B_field1, JStr(B_value2)>> >>)),
    Request(<<RawHdr("other", B_content_type)>>, TRUE,
            DocBody(<< <<B_field1, JStr(B_value2)>> >>)),
    Request(<<HostHdr(B_example_com, FALSE, 0)>>, TRUE, RawBody(<<>>)),
    Request(<<RawHdr("marker", MARKER), HostHdr(B_example_com, FALSE, 0)>>, TRUE,
            DocBody(<< <<B_field1, JStr(B_value1)>> >>)),
    Request(<<HostHdr(B_example_com, TRUE, 9090)>>, TRUE,
            DocBody(<< <<B_field1, JNum(1)>>, <<B_other, JStr(MARKER)>> >>)),
    Request(<<RawHdr("emptyhost", B_host_only_port)>>, TRUE,
            DocBody(<< <<B_field1, JStr(B_value2)>> >>)) }
InitialData == {Render(r) : r \in InitialRequests}

\* the first chunks of the clients of the whole-program specification: one
\* that a rule routes, one that nothing routes
PoolRequests ==
  { Request(<<>>, TRUE, DocBody(<< <<B_field1, JStr(B_value1)>> >>)),
    Request(<<RawHdr("other", B_content_type)>>, TRUE,
            DocBody(<< <<B_field1, JStr(B_value2)>> >>)) }
PoolData == {Render(r) : r \in PoolRequests}

\* the exceptions a socket operation raises (socket.timeout, gaierror and
\* the connection errors are all OSError)
SocketErrors == {"OSError"}

\* the classes among them that "except Exception" catches: all of them
ExceptionClasses == {"OSError"}

\* handle_client with "except ValueError" in place of "except Exception"
HandleClientCatchesValueError(kind) == kind = "ValueError"

\* handle_client's except clause: whether it catches (and logs) the exception
HandleClientCatches(kind) == kind \in ExceptionClasses

\* recv(BUFFER_SIZE) on a stream with these bytes left: the sizes it may return
RecvSizes(left) == 1..Min(BUFFER_SIZE, left)

\* how many bytes of a chunk sendall may have sent when it raises
SentBeforeError(chunk) ==
  {n \in 0..(Len(chunk) - 1) : n <= MaxPartial \/ n = Len(chunk) - 1}

NewConn ==
  [ pc |-> "new",            \* where the connection or its handler stands
    data |-> <<>>,           \* the first chunk
    is_streaming |-> FALSE,
    target |-> NoTarget,
    closes |-> 0,            \* calls of client_socket.close()
    backend |-> "none",      \* target_socket: none, connected, closed
    connects |-> 0,          \* calls of target_socket.connect()
    buf |-> <<>>,            \* the chunk read and not yet sent on
    fromClient |-> <<>>,     \* bytes read from the client after the first chunk
    toBackend |-> <<>>,      \* bytes sent to the backend
    fromBackend |-> <<>>,    \* bytes read from the backend
    toClient |-> <<>>,       \* bytes sent to the client
    clientEof |-> FALSE,     \* a relay read from the client returned b""
    backendRead |-> FALSE,   \* a relay read from the backend was made
    stop |-> "",             \* why handle_streaming left its loop
    exc |-> "none",          \* the exception raised inside the try block
    raisedAt |-> "",         \* the step that raised it
    caught |-> FALSE,        \* the except clause caught it
    escaped |-> FALSE ]      \* the exception left handle_client

\* the resolver harness at rest
ResolverOff ==
  /\ API_ENDPOINTS = TABLE_TESTS
  /\ rReq = Request(<<>>, FALSE, RawBody(<<>>))
  /\ rData = <<>>
  /\ rPc = "off"
  /\ rStream = FALSE
  /\ rFlag = FALSE
  /\ rResult = NoTarget

\* the whole program: the proxy listening, several clients to come
Init ==
  /\ ResolverOff
  /\ backlog = <<>>
  /\ arrived = 0
  /\ workQueue = <<>>
  /\ env = [nconns |-> MaxConns, requests |-> PoolData,
            clientBytes |-> PoolBytes, backendBytes |-> PoolBytes,
            errors |-> SocketErrors, silent |-> {}]
  /\ conn = [c \in 1..MaxConns |-> NewConn]

\* one client, every first chunk, longer streams
InitHandler ==
  /\ ResolverOff
  /\ backlog = <<>>
  /\ arrived = 0
  /\ workQueue = <<>>
  /\ env = [nconns |-> 1, requests |-> InitialData,
            clientBytes |-> MaxClientBytes, backendBytes |-> MaxBackendBytes,
            errors |-> SocketErrors, silent |-> {}]
  /\ conn = [c \in {1} |-> NewConn]

Running(c) == conn[c].pc \notin {"new", "backlog", "queued", "done"}

Set(c, r) ==
  /\ conn' = [conn EXCEPT ![c] = r]
  /\ UNCHANGED <<API_ENDPOINTS, resolverVars, backlog, arrived, workQueue, env>>

\* an exception raised inside the try block: the except clause catches it or
\* not, and the finally clause is next
Raise(k, e) ==
  [k EXCEPT !.exc = e, !.raisedAt = k.pc, !.caught = HandleClientCatches(e),
            !.pc = "finally"]

\* an exception raised inside the with block: target_socket is closed on the
\* way out
RaiseInWith(k, e) == Raise([k EXCEPT !.backend = "closed"], e)

\* a client completes the TCP handshake: the kernel queues the connection
Client_Connect ==
  /\ arrived < env.nconns
  /\ Len(backlog) < LISTEN_BACKLOG
  /\ arrived' = arrived + 1
  /\ backlog' = Append(backlog, arrived + 1)
  /\ conn' = [conn EXCEPT ![arrived + 1].pc = "backlog"]
  /\ UNCHANGED <<API_ENDPOINTS, resolverVars, workQueue, env>>

\* main closing the accepted socket instead of submitting it when a call is
\* already waiting for a worker
Main_Accept_Drop ==
  /\ backlog # <<>>
  /\ backlog' = Tail(backlog)
  /\ IF workQueue = <<>>
     THEN /\ workQueue' = Append(workQueue, Head(backlog))
          /\ conn' = [conn EXCEPT ![Head(backlog)].pc = "queued"]
     ELSE /\ workQueue' = workQueue
          /\ conn' = [conn EXCEPT ![Head(backlog)].pc = "dropped"]
  /\ UNCHANGED <<API_ENDPOINTS, resolverVars, arrived, env>>

\* main accepting only while a worker is free
Main_Accept_Backpressure ==
  /\ backlog # <<>>
  /\ Cardinality({c \in Conns : Running(c)}) < MAX_WORKERS
  /\ backlog' = Tail(backlog)
  /\ workQueue' = Append(workQueue, Head(backlog))
  /\ conn' = [conn EXCEPT ![Head(backlog)].pc = "queued"]
  /\ UNCHANGED <<API_ENDPOINTS, resolverVars, arrived, env>>

\* main: server_socket.accept() and executor.submit(handle_client, ...)
Main_Accept ==
  /\ backlog # <<>>
  /\ backlog' = Tail(backlog)
  /\ workQueue' = Append(workQueue, Head(backlog))
  /\ conn' = [conn EXCEPT ![Head(backlog)].pc = "queued"]
  /\ UNCHANGED <<API_ENDPOINTS, resolverVars, arrived, env>>

\* an executor that starts a thread for every call, whatever max_workers is
Worker_Start_Unbounded ==
  /\ workQueue # <<>>
  /\ workQueue' = Tail(workQueue)
  /\ conn' = [conn EXCEPT ![Head(workQueue)].pc = "recv_initial"]
  /\ UNCHANGED <<API_ENDPOINTS, resolverVars, backlog, arrived, env>>

\* the executor: a worker takes the oldest queued call when fewer than
\* max_workers calls are running
Worker_Start ==
  /\ workQueue # <<>>
  /\ Cardinality({c \in Conns : Running(c)}) < MAX_WORKERS
  /\ workQueue' = Tail(workQueue)
  /\ conn' = [conn EXCEPT ![Head(workQueue)].pc = "recv_initial"]
  /\ UNCHANGED <<API_ENDPOINTS, resolverVars, backlog, arrived, env>>

\* handle_client: data = client_socket.recv(BUFFER_SIZE); an empty read
\* closes the client and returns.  The socket has no timeout: while the
\* client sends nothing and does not close, recv does not return.
HC_RecvInitial(c) ==
  LET k == conn[c]
  IN  /\ k.pc = "recv_initial"
      /\ c \notin env.silent
      /\ \/ \E d \in env.requests :
              /\ Len(d) <= BUFFER_SIZE
              /\ Set(c, [k EXCEPT !.data = d, !.pc = "classify"])
         \/ Set(c, [k EXCEPT !.closes = @ + 1, !.pc = "finally"])
         \/ \E e \in env.errors : Set(c, Raise(k, e))

\* handle_client: is_streaming = is_stream(data)
HC_Classify(c) ==
  LET k == conn[c]
  IN  /\ k.pc = "classify"
      /\ Set(c, [k EXCEPT !.is_streaming = is_stream(k.data), !.pc = "resolve"])

\* handle_client with a resolver that uses a rule up: the rule that gave the
\* target is taken out of the table
HC_Resolve_Consuming(c) ==
  LET k == conn[c]
      t == determine_target_endpoint(k.data, k.is_streaming)
  IN  /\ k.pc = "resolve"
      /\ conn' = [conn EXCEPT ![c] =
                    IF Falsy(t)
                    THEN [k EXCEPT !.target = t, !.closes = @ + 1, !.pc = "finally"]
                    ELSE [k EXCEPT !.target = t, !.pc = "connect"]]
      /\ API_ENDPOINTS' = SelectSeq(API_ENDPOINTS, LAMBDA r : RuleTarget(r) # t)
      /\ UNCHANGED <<resolverVars, backlog, arrived, workQueue, env>>

\* handle_client without the test of the target: it dials whatever the
\* resolver returned
HC_Resolve_DialAnyway(c) ==
  LET k == conn[c]
      t == determine_target_endpoint(k.data, k.is_streaming)
  IN  /\ k.pc = "resolve"
      /\ Set(c, [k EXCEPT !.target = t, !.pc = "connect"])

\* handle_client: the target; none closes the client and returns
HC_Resolve(c) ==
  LET k == conn[c]
      t == determine_target_endpoint(k.data, k.is_streaming)
  IN  /\ k.pc = "resolve"
      /\ IF Falsy(t)
         THEN Set(c, [k EXCEPT !.target = t, !.closes = @ + 1, !.pc = "finally"])
         ELSE Set(c, [k EXCEPT !.target = t, !.pc = "connect"])

\* handle_client connecting again after a failed connect
HC_Connect_Retry(c) ==
  LET k == conn[c]
  IN  /\ k.pc = "connect"
      /\ \/ Set(c, [k EXCEPT !.connects = @ + 1, !.backend = "connected",
                             !.pc = "send_initial"])
         \/ \E e \in env.errors :
              IF k.connects = 0
              THEN Set(c, [k EXCEPT !.connects = @ + 1])
              ELSE Set(c, RaiseInWith([k EXCEPT !.connects = @ + 1], e))

\* handle_client: the target socket is made and connected; a failure raises
HC_Connect(c) ==
  LET k == conn[c]
  IN  /\ k.pc = "connect"
      /\ \/ Set(c, [k EXCEPT !.connects = @ + 1, !.backend = "connected",
                             !.pc = "send_initial"])
         \/ \E e \in env.errors :
              Set(c, RaiseInWith([k EXCEPT !.connects = @ + 1], e))

\* handle_client entering the relay without sending the first chunk
HC_SendInitial_Skip(c) ==
  LET k == conn[c]
  IN  /\ k.pc = "send_initial"
      /\ Set(c, [k EXCEPT !.pc = IF k.is_streaming THEN "hs_recv_client"
                                 ELSE "hr_recv_client"])

\* handle_client: target_socket.sendall(data), then the relay for the type
HC_SendInitial(c) ==
  LET k == conn[c]
  IN  /\ k.pc = "send_initial"
      /\ \/ Set(c, [k EXCEPT !.toBackend = @ \o k.data,
                             !.pc = IF k.is_streaming THEN "hs_recv_client"
                                    ELSE "hr_recv_client"])
         \/ \E e \in env.errors, n \in SentBeforeError(k.data) :
              Set(c, RaiseInWith([k EXCEPT !.toBackend = @ \o SubSeq(k.data, 1, n)], e))

\* the next n bytes the client sends
ClientChunk(k, n) == SubSeq(CLIENT_BYTES, Len(k.fromClient) + 1, Len(k.fromClient) + n)
\* the next n bytes the backend sends
BackendChunk(k, n) ==
  SubSeq(BACKEND_BYTES, Len(k.fromBackend) + 1, Len(k.fromBackend) + n)

\* handle_regular_http giving up on the client: it may leave the first loop
\* though the client has not closed
HR_RecvClient_GivesUp(c) ==
  LET k == conn[c]
  IN  /\ k.pc = "hr_recv_client"
      /\ \/ \E n \in RecvSizes(env.clientBytes - Len(k.fromClient)) :
              Set(c, [k EXCEPT !.buf = ClientChunk(k, n),
                               !.fromClient = @ \o ClientChunk(k, n),
                               !.pc = "hr_send_backend"])
         \/ Set(c, [k EXCEPT !.clientEof = TRUE, !.pc = "hr_recv_backend"])
         \/ Set(c, [k EXCEPT !.pc = "hr_recv_backend"])
         \/ \E e \in env.errors : Set(c, RaiseInWith(k, e))

\* handle_regular_http: data = client_socket.recv(BUFFER_SIZE); b"" ends the
\* first loop
HR_RecvClient(c) ==
  LET k == conn[c]
  IN  /\ k.pc = "hr_recv_client"
      /\ \/ \E n \in RecvSizes(env.clientBytes - Len(k.fromClient)) :
              Set(c, [k EXCEPT !.buf = ClientChunk(k, n),
                               !.fromClient = @ \o ClientChunk(k, n),
                               !.pc = "hr_send_backend"])
         \/ Set(c, [k EXCEPT !.clientEof = TRUE, !.pc = "hr_recv_backend"])
         \/ \E e \in env.errors : Set(c, RaiseInWith(k, e))

\* handle_regular_http reading the backend's answer after each chunk sent
HR_SendBackend_Alternating(c) ==
  LET k == conn[c]
  IN  /\ k.pc = "hr_send_backend"
      /\ \/ Set(c, [k EXCEPT !.toBackend = @ \o k.buf, !.buf = <<>>,
                             !.pc = "hr_recv_backend"])
         \/ \E e \in env.errors, n \in SentBeforeError(k.buf) :
              Set(c, RaiseInWith([k EXCEPT !.toBackend = @ \o SubSeq(k.buf, 1, n)], e))

\* handle_regular_http: target_socket.sendall(data)
HR_SendBackend(c) ==
  LET k == conn[c]
  IN  /\ k.pc = "hr_send_backend"
      /\ \/ Set(c, [k EXCEPT !.toBackend = @ \o k.buf, !.buf = <<>>,
                             !.pc = "hr_recv_client"])
         \/ \E e \in env.errors, n \in SentBeforeError(k.buf) :
              Set(c, RaiseInWith([k EXCEPT !.toBackend = @ \o SubSeq(k.buf, 1, n)], e))

\* handle_regular_http: response = target_socket.recv(BUFFER_SIZE); b"" ends
\* the second loop, the function returns and the with block closes the target
HR_RecvBackend(c) ==
  LET k == conn[c]
  IN  /\ k.pc = "hr_recv_backend"
      /\ \/ \E n \in RecvSizes(env.backendBytes - Len(k.fromBackend)) :
              Set(c, [k EXCEPT !.buf = BackendChunk(k, n),
                               !.fromBackend = @ \o BackendChunk(k, n),
                               !.backendRead = TRUE,
                               !.pc = "hr_send_client"])
         \/ Set(c, [k EXCEPT !.backendRead = TRUE, !.backend = "closed",
                             !.pc = "finally"])
         \/ \E e \in env.errors :
              Set(c, RaiseInWith([k EXCEPT !.backendRead = TRUE], e))

\* handle_regular_http with a second loop that does not read again: the same
\* response is sent over and over (the repeats are not recorded)
HR_SendClient_NoReread(c) ==
  LET k == conn[c]
  IN  /\ k.pc = "hr_send_client"
      /\ Set(c, [k EXCEPT !.toClient = k.fromBackend])

\* handle_regular_http: client_socket.sendall(response)
HR_SendClient(c) ==
  LET k == conn[c]
  IN  /\ k.pc = "hr_send_client"
      /\ \/ Set(c, [k EXCEPT !.toClient = @ \o k.buf, !.buf = <<>>,
                             !.pc = "hr_recv_backend"])
         \/ \E e \in env.errors, n \in SentBeforeError(k.buf) :
              Set(c, RaiseInWith([k EXCEPT !.toClient = @ \o SubSeq(k.buf, 1, n)], e))

\* handle_client without the close in its finally clause
HC_Finally_NoClose(c) ==
  LET k == conn[c]
  IN  /\ k.pc = "finally"
      /\ Set(c, [k EXCEPT !.escaped = (k.exc # "none" /\ ~k.caught), !.pc = "done"])

\* handle_client: finally closes the client; an exception not caught goes on
\* to the executor, which keeps it in the call's future
HC_Finally(c) ==
  LET k == conn[c]
  IN  /\ k.pc = "finally"
      /\ Set(c, [k EXCEPT !.closes = @ + 1,
                          !.escaped = (k.exc # "none" /\ ~k.caught),
                          !.pc = "done"])

\* handle_streaming leaves its loop: reason says why
StreamStop(k, reason) == [k EXCEPT !.stop = reason, !.pc = "hs_returned"]

\* handle_streaming: data = client_socket.recv(BUFFER_SIZE); b"" breaks, and
\* so does any exception
HS_RecvClient(c) ==
  LET k == conn[c]
  IN  /\ k.pc = "hs_recv_client"
      /\ \/ \E n \in RecvSizes(env.clientBytes - Len(k.fromClient)) :
              Set(c, [k EXCEPT !.buf = ClientChunk(k, n),
                               !.fromClient = @ \o ClientChunk(k, n),
                               !.pc = "hs_send_backend"])
         \/ Set(c, StreamStop([k EXCEPT !.clientEof = TRUE], "client_eof"))
         \/ \E e \in env.errors : Set(c, StreamStop(k, "client_recv_error"))

\* handle_streaming forgetting the chunk it read from the client
HS_SendBackend_Drop(c) ==
  LET k == conn[c]
  IN  /\ k.pc = "hs_send_backend"
      /\ Set(c, [k EXCEPT !.buf = <<>>, !.pc = "hs_recv_backend"])

\* handle_streaming: target_socket.sendall(data)
HS_SendBackend(c) ==
  LET k == conn[c]
  IN  /\ k.pc = "hs_send_backend"
      /\ \/ Set(c, [k EXCEPT !.toBackend = @ \o k.buf, !.buf = <<>>,
                             !.pc = "hs_recv_backend"])
         \/ \E e \in env.errors, n \in SentBeforeError(k.buf) :
              Set(c, StreamStop([k EXCEPT !.toBackend = @ \o SubSeq(k.buf, 1, n)],
                                "backend_send_error"))

\* handle_streaming: response = target_socket.recv(BUFFER_SIZE)
HS_RecvBackend(c) ==
  LET k == conn[c]
  IN  /\ k.pc = "hs_recv_backend"
      /\ \/ \E n \in RecvSizes(env.backendBytes - Len(k.fromBackend)) :
              Set(c, [k EXCEPT !.buf = BackendChunk(k, n),
                               !.fromBackend = @ \o BackendChunk(k, n),
                               !.backendRead = TRUE,
                               !.pc = "hs_send_client"])
         \/ Set(c, StreamStop([k EXCEPT !.backendRead = TRUE], "backend_eof"))
         \/ \E e \in env.errors :
              Set(c, StreamStop([k EXCEPT !.backendRead = TRUE], "backend_recv_error"))

\* handle_streaming: client_socket.sendall(response)
HS_SendClient(c) ==
  LET k == conn[c]
  IN  /\ k.pc = "hs_send_client"
      /\ \/ Set(c, [k EXCEPT !.toClient = @ \o k.buf, !.buf = <<>>,
                             !.pc = "hs_recv_client"])
         \/ \E e \in env.errors, n \in SentBeforeError(k.buf) :
              Set(c, StreamStop([k EXCEPT !.toClient = @ \o SubSeq(k.buf, 1, n)],
                                "client_send_error"))

Handler(c) ==
  \/ HC_RecvInitial(c) \/ HC_Classify(c) \/ HC_Resolve(c) \/ HC_Connect(c)
  \/ HC_SendInitial(c) \/ HR_RecvClient(c) \/ HR_SendBackend(c)
  \/ HR_RecvBackend(c) \/ HR_SendClient(c) \/ HC_Finally(c)

Next ==
  \/ Client_Connect
  \/ Main_Accept
  \/ Worker_Start
  \/ \E c \in Conns : Handler(c)

Spec == Init /\ [][Next]_vars

SpecHandler == InitHandler /\ [][Next]_vars

\* the connections of SpecHandler
HandlerConns == {1}

\* the steps of a handler that wait on a socket or run to the next one
HandlerSteps(c) ==
  \/ HC_RecvInitial(c) \/ HC_Classify(c) \/ HC_Connect(c) \/ HC_SendInitial(c)
  \/ HR_RecvClient(c) \/ HR_SendBackend(c) \/ HR_RecvBackend(c)
  \/ HR_SendClient(c) \/ HC_Finally(c)

\* one client's handler when every socket operation returns in the end: a
\* handler that can take a step does take one, and the call of
\* determine_target_endpoint, which waits on nothing, returns
SpecHandlerLive ==
  /\ SpecHandler
  /\ \A c \in HandlerConns : WF_vars(HandlerSteps(c))
  /\ \A c \in HandlerConns : []<>(conn[c].pc # "resolve")

\* handle_streaming called on a client socket and a connected target socket.
\* handle_client never makes this call (C10), so the relay's steps are no
\* part of Next and have a specification of their own.
InitStreaming ==
  /\ ResolverOff
  /\ backlog = <<>>
  /\ arrived = 1
  /\ workQueue = <<>>
  /\ env = [nconns |-> 1, requests |-> {},
            clientBytes |-> MaxStreamBytes, backendBytes |-> MaxStreamBytes,
            errors |-> SocketErrors, silent |-> {}]
  /\ conn = [c \in {1} |->
               [NewConn EXCEPT !.pc = "hs_recv_client", !.is_streaming = TRUE,
                               !.backend = "connected", !.connects = 1]]

NextStreaming ==
  \E c \in Conns :
     HS_RecvClient(c) \/ HS_SendBackend(c) \/ HS_RecvBackend(c) \/ HS_SendClient(c)

SpecStreaming == InitStreaming /\ [][NextStreaming]_vars

\* more clients than the executor has workers.  The first clients connect
\* and then send nothing and do not close, so that their handlers stay in the
\* first recv and leave few workers or none free; the others close without
\* sending.  What the accept loop and the executor do when the pool fills up.
MaxPoolConns == 12
MaxFree == 2

InitPool ==
  /\ ResolverOff
  /\ backlog = <<>>
  /\ arrived = 0
  /\ workQueue = <<>>
  /\ \E free \in 0..MaxFree :
       env = [nconns |-> MaxPoolConns, requests |-> {},
              clientBytes |-> 0, backendBytes |-> 0, errors |-> {},
              silent |-> 1..(MAX_WORKERS - free)]
  /\ conn = [c \in 1..MaxPoolConns |-> NewConn]

SpecPool == InitPool /\ [][Next]_vars

(***************************************************************************)
(* Claims about one connection's handler, under SpecHandler.               *)
(***************************************************************************)
\* the first chunk was rendered from a request that holds the marker
DataHasMarker(d) == \E r \in InitialRequests : ReqHasMarker(r) /\ Render(r) = d

\* handle_regular_http returned without raising
RelayCompleted(k) == k.backendRead /\ k.exc = "none" /\ k.pc \in {"finally", "done"}

\* C1: when handle_client has returned, by whichever exit, the client socket
\* has been closed, and the backend socket has been closed if it was opened.
C1_SocketsReleased ==
  \A c \in Conns :
     conn[c].pc = "done" =>
        /\ conn[c].closes >= 1
        /\ conn[c].backend \in {"none", "closed"}
        /\ conn[c].connects >= 1 => conn[c].backend = "closed"

\* C1 witness: a handler that returned after an I/O error in the middle of
\* the relay, with both sockets closed
C1_Witness ==
  \E c \in Conns :
     /\ conn[c].pc = "done"
     /\ conn[c].raisedAt = "hr_send_client"
     /\ conn[c].closes = 1
     /\ conn[c].backend = "closed"

\* C3: once connect has failed, nothing has been or will be sent to the
\* backend or to the client, connect was called once and is not called again,
\* and the handler goes on to close the client.
C3_DialFailure ==
  \A c \in Conns :
     conn[c].raisedAt = "connect" =>
        /\ conn[c].toBackend = <<>>
        /\ conn[c].toClient = <<>>
        /\ conn[c].connects = 1
        /\ conn[c].pc \in {"finally", "done"}
        /\ conn[c].pc = "done" => conn[c].closes >= 1

\* C3 witness: connect failed and the handler has returned
C3_Witness ==
  \E c \in Conns :
     /\ conn[c].raisedAt = "connect"
     /\ conn[c].pc = "done"
     /\ conn[c].closes = 1

\* C4: in the bounded relay, a read from the backend is made, and a byte goes
\* to the client, only after the client's zero-length read, when every byte
\* read from the client has been sent to the backend; and when the relay
\* returns after the backend's zero-length read, the backend was sent exactly
\* the bytes read from the client and the client exactly the bytes read from
\* the backend, each in the order read.
C4_BoundedRelay ==
  \A c \in Conns :
     LET k == conn[c]
     IN  /\ (k.backendRead \/ k.fromBackend # <<>> \/ k.toClient # <<>>) =>
              (k.clientEof /\ k.toBackend = k.data \o k.fromClient)
         /\ RelayCompleted(k) =>
              (k.toBackend = k.data \o k.fromClient /\ k.toClient = k.fromBackend)

\* C4 witness: two bytes went each way, in chunks, and the relay returned
C4_Witness ==
  \E c \in Conns :
     /\ RelayCompleted(conn[c])
     /\ conn[c].fromClient = <<"c1", "c2">>
     /\ conn[c].toClient = <<"b1", "b2">>

\* C10: a connection whose first chunk holds the marker is classified as
\* streaming, gets no target, is never dialed, never enters a relay, and is
\* closed.
C10_StreamingNeverRouted ==
  \A c \in Conns :
     LET k == conn[c]
     IN  (k.is_streaming \/ DataHasMarker(k.data)) =>
            /\ k.pc \in {"classify", "resolve", "finally", "done"}
            /\ k.pc \in {"finally", "done"} => (k.is_streaming /\ k.closes >= 1)
            /\ k.target = NoTarget
            /\ k.connects = 0
            /\ k.backend = "none"
            /\ k.toBackend = <<>>

\* C10 witness: a request that a rule would route, were it not streaming,
\* was closed without a dial
C10_Witness ==
  \E c \in Conns :
     /\ conn[c].is_streaming
     /\ conn[c].pc = "done"
     /\ conn[c].connects = 0
     /\ Contains(conn[c].data, B_value1)

(***************************************************************************)
(* Claims about handle_streaming, under SpecStreaming.                     *)
(***************************************************************************)
IsPrefix(a, b) == Len(a) <= Len(b) /\ SubSeq(b, 1, Len(a)) = a

\* everything read has been sent on
AllForwarded(k) == k.toBackend = k.data \o k.fromClient /\ k.toClient = k.fromBackend

\* C5, as claimed: the relay stops at once on the first zero-length read or
\* I/O error on either socket, and when it has stopped every chunk it read
\* has been sent on.
C5_NothingUnforwarded ==
  \A c \in Conns :
     conn[c].stop # "" => (conn[c].pc = "hs_returned" /\ AllForwarded(conn[c]))

\* C5, amended: every chunk read is sent on before the next read, in the
\* order read; the relay stops at once on the first zero-length read or I/O
\* error; when it stops on a zero-length read or a failed read everything
\* read has been sent on, and when it stops on a failed send only bytes of
\* the chunk being sent are left.
C5_StreamingRelay ==
  \A c \in Conns :
     LET k == conn[c]
     IN  /\ k.stop # "" => k.pc = "hs_returned"
         /\ k.pc \in {"hs_recv_client", "hs_recv_backend"} => AllForwarded(k)
         /\ k.pc = "hs_send_backend" =>
              (k.buf # <<>> /\ k.data \o k.fromClient = k.toBackend \o k.buf
                 /\ k.toClient = k.fromBackend)
         /\ k.pc = "hs_send_client" =>
              (k.buf # <<>> /\ k.fromBackend = k.toClient \o k.buf
                 /\ k.toBackend = k.data \o k.fromClient)
         /\ k.stop \in {"client_eof", "backend_eof", "client_recv_error",
                        "backend_recv_error"} => AllForwarded(k)
         /\ k.stop = "backend_send_error" =>
              /\ k.toClient = k.fromBackend
              /\ IsPrefix(k.toBackend, k.data \o k.fromClient)
              /\ Len(k.data \o k.fromClient) - Len(k.toBackend) \in 1..Len(k.buf)
         /\ k.stop = "client_send_error" =>
              /\ k.toBackend = k.data \o k.fromClient
              /\ IsPrefix(k.toClient, k.fromBackend)
              /\ Len(k.fromBackend) - Len(k.toClient) \in 1..Len(k.buf)

\* C5 witness: a first chunk went to the backend and its answer to the
\* client; the second send to the backend failed and left its chunk behind
C5_Witness ==
  \E c \in Conns :
     /\ conn[c].stop = "backend_send_error"
     /\ conn[c].toClient # <<>>
     /\ conn[c].toBackend = <<"c1">>
     /\ conn[c].fromClient = <<"c1", "c2">>

(***************************************************************************)
(* Claims about the whole program, under Spec.                             *)
(***************************************************************************)
\* the handler of c has failed: an exception was raised in it
Failed(k) == k.exc # "none"

\* C2: no exception leaves handle_client; a step in which one connection's
\* handler fails changes no other connection and neither queue; and main can
\* always accept a connection that waits in the backlog.
C2_FailureIsolated ==
  /\ [](\A c \in Conns : ~conn[c].escaped)
  /\ [](backlog # <<>> => ENABLED Main_Accept)
  /\ [][\A c \in Conns :
          (~Failed(conn[c]) /\ Failed(conn'[c])) =>
             /\ \A d \in Conns \ {c} : conn'[d] = conn[d]
             /\ backlog' = backlog
             /\ workQueue' = workQueue]_vars

\* C2 witness: the first connection's handler failed in the relay and has
\* returned, the second connection was served to the end, and neither
\* exception escaped
C2_Witness ==
  /\ conn[1].pc = "done" /\ conn[1].raisedAt = "hr_recv_client"
  /\ ~conn[1].escaped
  /\ conn[2].pc = "done" /\ RelayCompleted(conn[2])

\* the handler of k has resolved its first chunk
Resolved(k) ==
  k.data # <<>> /\ k.pc \notin {"new", "backlog", "queued", "recv_initial", "classify", "resolve"}

\* C13: no step of any connection (classification, resolution, dialing,
\* relaying, with several connections at once) changes the endpoint table: it
\* stays the table loaded at the start; and two connections that sent the
\* same first chunk got the same target.
C13_TableNeverChanges ==
  /\ [][API_ENDPOINTS' = API_ENDPOINTS]_vars
  /\ [](API_ENDPOINTS = TABLE_TESTS)
  /\ [](\A c, d \in Conns :
          (Resolved(conn[c]) /\ Resolved(conn[d]) /\ conn[c].data = conn[d].data) =>
             conn[c].target = conn[d].target)

\* C13 witness: two connections sent the same first chunk, one after the
\* other was served to the end, and the first rule routed both
C13_Witness ==
  /\ conn[1].pc = "done" /\ RelayCompleted(conn[1])
  /\ Resolved(conn[2]) /\ conn[2].data = conn[1].data
  /\ conn[1].target = RuleTarget(RULE_API1)
  /\ conn[2].target = RuleTarget(RULE_API1)
  /\ API_ENDPOINTS = TABLE_TESTS

(***************************************************************************)
(* Claims about the accept loop and the executor, under SpecPool.          *)
(***************************************************************************)
\* handle_client is executing for the connection
BeingHandled(k) ==
  k.pc \in {"recv_initial", "classify", "resolve", "connect", "send_initial",
            "hr_recv_client", "hr_send_backend", "hr_recv_backend",
            "hr_send_client", "hs_recv_client", "finally"}

Executing == {c \in Conns : BeingHandled(conn[c])}

\* every worker of the executor is busy
Saturated == Cardinality(Executing) = MAX_WORKERS

\* the connection was taken off the listening socket
Accepted(c) == conn[c].pc \notin {"new", "backlog"}

InWorkQueue(c) == \E i \in DOMAIN workQueue : workQueue[i] = c

\* C14: at most max_workers handlers execute at any moment, and every
\* accepted connection is waiting in the executor's queue (once), is being
\* handled, or has been handled.
C14_PoolBounded ==
  /\ Cardinality(Executing) <= MAX_WORKERS
  /\ \A c \in Conns :
        Accepted(c) =>
           \/ conn[c].pc = "queued" /\ InWorkQueue(c)
           \/ BeingHandled(conn[c]) /\ ~InWorkQueue(c)
           \/ conn[c].pc = "done" /\ ~InWorkQueue(c)
  /\ \A i, j \in DOMAIN workQueue : workQueue[i] = workQueue[j] => i = j

\* C14 witness: every worker is busy, one handler is about to return, and
\* an accepted connection waits for a worker
C14_Witness ==
  /\ Saturated
  /\ workQueue # <<>>
  /\ \A i \in DOMAIN workQueue : conn[workQueue[i]].pc = "queued"
  /\ \E c \in Conns : conn[c].pc = "finally"

\* C15, as claimed: while every worker is busy no accepted connection waits
\* inside the process; what cannot be handled yet waits in the backlog of the
\* listening socket only.
C15_OnlyBacklogWaits == Saturated => workQueue = <<>>

\* C15, amended: the pool never holds accept back.  main can accept whenever
\* a connection waits in the backlog, also while every worker is busy; the
\* accepted connection is then submitted and waits, accepted and unstarted,
\* in the executor's queue; the backlog holds only connections not accepted.
C15_QueueInsideProcess ==
  /\ [](backlog # <<>> => ENABLED Main_Accept)
  /\ [][(Saturated /\ backlog' # backlog /\ Len(backlog') < Len(backlog)) =>
          /\ workQueue' = Append(workQueue, Head(backlog))
          /\ conn'[Head(backlog)].pc = "queued"]_vars
  /\ [](\A i \in DOMAIN backlog : ~Accepted(backlog[i]))
  /\ [](\A c \in Conns : conn[c].pc = "queued" => InWorkQueue(c))

\* C15 witness: every worker is busy, the backlog is empty, and two accepted
\* connections wait in the executor's queue
C15_Witness ==
  /\ Saturated
  /\ backlog = <<>>
  /\ Len(workQueue) = 2
  /\ \A i \in DOMAIN workQueue : Accepted(workQueue[i])

\* C20: while every worker is busy no queued call can start; in a step that
\* leaves all the busy handlers where they are no handler starts, and a
\* queued connection is neither served nor closed; main can still accept.
C20_Starvation ==
  /\ [](Saturated => ~ENABLED Worker_Start)
  /\ [](Saturated /\ backlog # <<>> => ENABLED Main_Accept)
  /\ [][(Saturated /\ \A c \in Executing : conn'[c] = conn[c]) =>
          \A c \in Conns : conn[c].pc = "queued" => conn'[c] = conn[c]]_vars
  /\ [](\A c \in Conns :
          conn[c].pc = "queued" =>
             (conn[c].closes = 0 /\ conn[c].data = <<>> /\ InWorkQueue(c)))

\* C20 witness: the ten handlers that execute all wait for clients that stay
\* silent, and a connection accepted after them waits in the queue
C20_Witness ==
  /\ Saturated
  /\ Executing \subseteq env.silent
  /\ \A c \in Executing : conn[c].pc = "recv_initial"
  /\ workQueue # <<>>
  /\ backlog = <<>>

(***************************************************************************)
(* More claims about one connection's handler, under SpecHandler.          *)
(***************************************************************************)
\* C16: connect is called at most once, and only after a first chunk that is
\* not empty and a target that is not none; after an empty first read there
\* is no classification, resolution or dial and the client is closed; after
\* a resolution to none there is no dial, nothing is read further or sent in
\* either direction, and the client is closed.
C16_OneDial ==
  \A c \in Conns :
     LET k == conn[c]
     IN  /\ k.connects <= 1
         /\ k.connects = 1 => (k.data # <<>> /\ k.target.some /\ ~Falsy(k.target))
         /\ k.data = <<>> =>
              /\ k.pc \in {"new", "backlog", "queued", "recv_initial", "finally", "done"}
              /\ k.target = NoTarget /\ ~k.is_streaming
              /\ k.connects = 0 /\ k.backend = "none"
              /\ k.toBackend = <<>> /\ k.toClient = <<>>
              /\ (k.pc \in {"finally", "done"} /\ k.exc = "none") => k.closes >= 1
         /\ (Resolved(k) /\ Falsy(k.target)) =>
              /\ k.pc \in {"finally", "done"}
              /\ k.closes >= 1
              /\ k.connects = 0 /\ k.backend = "none"
              /\ k.fromClient = <<>> /\ k.fromBackend = <<>>
              /\ k.toBackend = <<>> /\ k.toClient = <<>>

\* C16 witness: a request with no Host line and a document that no rule
\* matches was closed without a dial
C16_Witness ==
  \E c \in Conns :
     /\ conn[c].pc = "done"
     /\ conn[c].data # <<>>
     /\ ~conn[c].is_streaming
     /\ conn[c].target = NoTarget
     /\ conn[c].connects = 0
     /\ conn[c].closes = 2

\* C17: what has been sent to the backend is a prefix of the first chunk
\* followed by the relay chunks read from the client, what has been sent to
\* the client is a prefix of what was read from the backend, and what is read
\* and not sent on lies within the one chunk read last, of at most
\* BUFFER_SIZE bytes.
C17_OrderedForwarding ==
  \A c \in Conns :
     LET k == conn[c]
         read == k.data \o k.fromClient
         pendingBackend == Len(read) - Len(k.toBackend)
         pendingClient == Len(k.fromBackend) - Len(k.toClient)
     IN  /\ IsPrefix(k.toBackend, read)
         /\ IsPrefix(k.toClient, k.fromBackend)
         /\ k.fromClient # <<>> => IsPrefix(k.data, k.toBackend)
         /\ Len(k.data) <= BUFFER_SIZE /\ Len(k.buf) <= BUFFER_SIZE
         /\ k.fromClient = <<>> => pendingBackend <= Len(k.data)
         /\ k.fromClient # <<>> =>
              pendingBackend <= (IF k.backendRead THEN 0 ELSE Len(k.buf))
         /\ pendingClient <= Len(k.buf)

\* C17 witness: the first chunk and a relay chunk have gone to the backend, a
\* second relay chunk has been read and not yet sent
C17_Witness ==
  \E c \in Conns :
     /\ conn[c].pc = "hr_send_backend"
     /\ conn[c].fromClient = <<"c1", "c2">>
     /\ conn[c].buf = <<"c2">>
     /\ conn[c].toBackend = conn[c].data \o <<"c1">>

\* handle_regular_http was entered
EnteredRelay(k) ==
  \/ k.pc \in {"hr_recv_client", "hr_send_backend", "hr_recv_backend", "hr_send_client"}
  \/ /\ k.pc \in {"finally", "done"}
     /\ k.connects = 1
     /\ k.raisedAt \notin {"connect", "send_initial"}

\* no read from the client has returned b"" or raised
ClientStillSending(k) == ~k.clientEof /\ k.raisedAt # "hr_recv_client"

\* C19, as claimed: in the bounded relay, as long as no read from the client
\* has returned zero bytes or raised, the backend has not been read, no byte
\* has gone to the client, and handle_client has not returned.
C19_StallUntilClientEnds ==
  \A c \in Conns :
     LET k == conn[c]
     IN  (EnteredRelay(k) /\ ClientStillSending(k)) =>
            (~k.backendRead /\ k.toClient = <<>> /\ k.pc # "done")

\* C19, amended: as long as no read from the client has returned zero bytes
\* or raised, the backend has not been read and no byte has gone to the
\* client; and unless a send to the backend has failed, the handler is still
\* in the first loop, with both sockets open.
C19_StallWhileClientSends ==
  \A c \in Conns :
     LET k == conn[c]
     IN  (EnteredRelay(k) /\ ClientStillSending(k)) =>
            /\ ~k.backendRead /\ k.fromBackend = <<>> /\ k.toClient = <<>>
            /\ k.raisedAt # "hr_send_backend" =>
                 /\ k.pc \in {"hr_recv_client", "hr_send_backend"}
                 /\ k.closes = 0
                 /\ k.backend = "connected"

\* C19 witness: the client has sent all it has and waits for the answer
\* without closing; the handler waits in the first loop and the backend has
\* not been read
C19_Witness ==
  \E c \in Conns :
     /\ conn[c].pc = "hr_recv_client"
     /\ Len(conn[c].fromClient) = env.clientBytes
     /\ conn[c].toBackend = conn[c].data \o conn[c].fromClient
     /\ ~conn[c].clientEof /\ ~conn[c].backendRead

(***************************************************************************)
(* Termination of one connection's handler, under SpecHandlerLive.         *)
(***************************************************************************)
\* C18: when every socket operation returns in the end and each peer ends
\* its stream or fails, a started handler reaches the end of handle_client;
\* and a handler leaves only through its finally clause, nothing else ends
\* it or takes it back.
C18_HandlerTerminates ==
  /\ \A c \in HandlerConns : Running(c) ~> (conn[c].pc = "done")
  /\ [][\A c \in Conns :
          /\ (conn[c].pc # "done" /\ conn'[c].pc = "done") => conn[c].pc = "finally"
          /\ Running(c) => (Running(c)' \/ conn'[c].pc = "done")
          /\ conn[c].pc = "done" => conn'[c] = conn[c]]_vars

\* C18 witness: a handler that relayed bytes both ways has returned
C18_Witness ==
  \E c \in Conns :
     /\ conn[c].pc = "done"
     /\ RelayCompleted(conn[c])
     /\ conn[c].toClient # <<>>
     /\ conn[c].closes = 1

====
